---------------------------- MODULE Spec2Model ----------------------------
(***************************************************************************)
(* A model of scripts/redis_client.py: RedisConfig (settings resolution,   *)
(* the dotenv constructor, the masked credential preview) and              *)
(* RedisStackClient (the lazily created connection handle, its teardown,   *)
(* the context-manager protocol and the pass-through store operations),    *)
(* and of scripts/test_redis_connection.py, the diagnostic probe.          *)
(*                                                                         *)
(* Python values are encoded as follows.                                   *)
(*   - a str is a sequence of one-character strings;                       *)
(*   - an Optional[T] is a sequence of length 0 (None) or 1 (the value);   *)
(*   - the outcome of a call is a record [kind, val] with kind "returned"  *)
(*     or "raised"; a raised val is the exception, a record with a type.   *)
(***************************************************************************)
EXTENDS Integers, Sequences, FiniteSets, TLC

VARIABLES
    env,          \* os.environ restricted to the three REDIS_* variables
    files,        \* the file system: path -> Optional[parsed dotenv content]
    config,       \* RedisStackClient.config of each client object (None: not built)
    _client,      \* RedisStackClient._client of each client object
    conns,        \* the redis.Redis objects: how many were created, and those not yet released
    entered,      \* the client objects whose managed block is open
    store,        \* the Redis server's state
    call,         \* the call made last: [op, args] or [op, self, args, net]
    ret,          \* its outcome: [kind, val]
    probe         \* the run of scripts/test_redis_connection.py: its position and what it did

configVars == <<env, files>>
clientVars == <<config, _client, conns, entered, store>>
vars == <<env, files, config, _client, conns, entered, store, call, ret, probe>>

-----------------------------------------------------------------------------
(* Bounds of the model.                                                    *)

\* Longest credential string drawn as a constructor argument.
MaxPwLen == 3
\* Most redis.Redis objects created in one run.
MaxConns == 2

-----------------------------------------------------------------------------
(* Python values.                                                          *)

None == <<>>
Some(x) == <<x>>
IsNone(o) == o = <<>>
Get(o) == o[1]

Returned(v) == [kind |-> "returned", val |-> v]
Raised(e) == [kind |-> "raised", val |-> e]

\* bool(x) for an Optional[str]: None and "" are falsy.
TruthyStr(o) == ~IsNone(o) /\ Len(Get(o)) > 0
\* bool(x) for an Optional[int]: None and 0 are falsy.
TruthyInt(o) == ~IsNone(o) /\ Get(o) # 0

Digits == <<"0", "1", "2", "3", "4", "5", "6", "7", "8", "9">>
IsDigit(ch) == \E d \in 1..10 : Digits[d] = ch
DigitVal(ch) == (CHOOSE d \in 1..10 : Digits[d] = ch) - 1

RECURSIVE ParseDigits(_)
ParseDigits(s) ==
    IF s = <<>> THEN 0
    ELSE 10 * ParseDigits(SubSeq(s, 1, Len(s) - 1)) + DigitVal(s[Len(s)])

\* int(s) for a str: the decimal value, ValueError for "" and for a non-digit.
IntOfStr(s) ==
    IF Len(s) > 0 /\ \A i \in 1..Len(s) : IsDigit(s[i])
    THEN Returned(ParseDigits(s))
    ELSE Raised([type |-> "ValueError"])

-----------------------------------------------------------------------------
(* The strings of the program and of the environment it is run in.         *)

EnvNames == {"REDIS_HOST", "REDIS_PORT", "REDIS_PASSWORD"}

DefaultHost == <<"l", "o", "c", "a", "l", "h", "o", "s", "t">>
DefaultPortStr == <<"6", "3", "7", "9">>

\* os.getenv(name, default): the variable when set (even to ""), else default.
getenv(e, name, default) == IF IsNone(e[name]) THEN default ELSE e[name]

\* Values os.environ may hold for each variable before the program runs.
EnvHosts == {None, Some(<<"e", "h">>)}
EnvPorts == {None, Some(<<"6", "3", "8", "0">>), Some(<<"x">>)}
EnvPasswords == {None, Some(<<>>), Some(<<"e", "p">>)}

Environments ==
    {[n \in EnvNames |->
        CASE n = "REDIS_HOST" -> h [] n = "REDIS_PORT" -> p [] OTHER -> w] :
        h \in EnvHosts, p \in EnvPorts, w \in EnvPasswords}

\* Constructor arguments.
HostArgs == {None, Some(<<>>), Some(<<"p", "h">>)}
PortArgs == {None, Some(0), Some(6381)}
PwChars == {"s", "*"}
RECURSIVE StrsUpTo(_)
StrsUpTo(n) ==
    IF n = 0 THEN {<<>>}
    ELSE LET shorter == StrsUpTo(n - 1) IN
         shorter \cup {Append(s, ch) : s \in {t \in shorter : Len(t) = n - 1},
                                       ch \in PwChars}
PwArgs == {None} \cup {Some(s) : s \in StrsUpTo(MaxPwLen)}

-----------------------------------------------------------------------------
(* RedisConfig.                                                            *)

\* self.host = host or os.getenv("REDIS_HOST", "localhost")
ResolveHost(e, host) ==
    IF TruthyStr(host) THEN host ELSE getenv(e, "REDIS_HOST", Some(DefaultHost))

\* self.port = int(port or os.getenv("REDIS_PORT", "6379"))
ResolvePort(e, port) ==
    IF TruthyInt(port) THEN Returned(Get(port))
    ELSE IntOfStr(Get(getenv(e, "REDIS_PORT", Some(DefaultPortStr))))

\* self.password = password or os.getenv("REDIS_PASSWORD")
ResolvePassword(e, password) ==
    IF TruthyStr(password) THEN password ELSE getenv(e, "REDIS_PASSWORD", None)

\* RedisConfig.__init__: the object built, or the ValueError int() raises.
RedisConfig_init(e, host, port, password) ==
    LET p == ResolvePort(e, port) IN
    IF p.kind = "raised" THEN p
    ELSE Returned([host |-> Get(ResolveHost(e, host)),
                   port |-> p.val,
                   password |-> ResolvePassword(e, password)])

\* "*" * n
Stars(n) == [i \in 1..n |-> "*"]
NoneText == <<"N", "o", "n", "e">>

\* Mutant: masks every character, the first included.
get_password_preview_masks_all(password) ==
    IF ~TruthyStr(password) THEN NoneText
    ELSE Stars(Len(Get(password)))

\* RedisConfig.get_password_preview, of self.password.
get_password_preview(password) ==
    IF ~TruthyStr(password) THEN NoneText
    ELSE <<Get(password)[1]>> \o Stars(Len(Get(password)) - 1)

\* Mutant: load_dotenv(dotenv_path, override=True), the file's value winning.
load_dotenv_overrides(e, content) ==
    [n \in EnvNames |-> IF IsNone(content[n]) THEN e[n] ELSE content[n]]

\* load_dotenv(dotenv_path): each variable of the file that os.environ does
\* not hold yet is added; a variable already set is kept.
load_dotenv(e, content) ==
    [n \in EnvNames |-> IF IsNone(e[n]) THEN content[n] ELSE e[n]]

\* The paths of the model; DefaultEnvPath is Path(__file__).parents[1]/".env".
DefaultEnvPath == "project/.env"
Paths == {DefaultEnvPath, "other/.env"}
PathArgs == {None} \cup {Some(p) : p \in Paths}

FullDotenv ==
    [n \in EnvNames |->
        CASE n = "REDIS_HOST" -> Some(<<"f", "h">>)
          [] n = "REDIS_PORT" -> Some(<<"7", "0", "0", "0">>)
          [] OTHER -> Some(<<"f", "p">>)]
PasswordOnlyDotenv ==
    [n \in EnvNames |-> IF n = "REDIS_PASSWORD" THEN Some(<<"f", "p">>) ELSE None]

\* Each path either holds no file or holds a settings file.
FileSystems ==
    {[p \in Paths |-> IF p = DefaultEnvPath THEN d ELSE o] :
        d \in {None, Some(FullDotenv)}, o \in {None, Some(PasswordOnlyDotenv)}}

RemediationHint == "Please copy .env.example to .env and set your configuration"
FileNotFoundError(path) ==
    [type |-> "FileNotFoundError",
     message |-> <<".env file not found at ", path, ". ", RemediationHint>>]

\* The path from_env looks at: the argument, or the default location.
EnvPathOf(env_path) == IF IsNone(env_path) THEN DefaultEnvPath ELSE Get(env_path)

-----------------------------------------------------------------------------
(* Operations on RedisConfig.                                              *)

\* RedisConfig(host, port, password)
NewRedisConfig(host, port, password) ==
    LET r == RedisConfig_init(env, host, port, password) IN
    /\ call' = [op |-> "RedisConfig", args |-> <<host, port, password>>]
    /\ ret' = r
    /\ UNCHANGED <<env, files, clientVars, probe>>

\* Mutant: a missing file is skipped silently, as conftest.load_test_env does.
from_env_skips_missing(env_path) ==
    LET path == EnvPathOf(env_path)
        e2 == IF IsNone(files[path]) THEN env
              ELSE load_dotenv(env, Get(files[path]))
        r == RedisConfig_init(e2, None, None, None) IN
    /\ call' = [op |-> "from_env", args |-> <<env_path>>]
    /\ env' = e2
    /\ ret' = r
    /\ UNCHANGED <<files, clientVars, probe>>

\* RedisConfig.from_env(env_path)
from_env(env_path) ==
    LET path == EnvPathOf(env_path) IN
    /\ call' = [op |-> "from_env", args |-> <<env_path>>]
    /\ IF IsNone(files[path])
       THEN /\ ret' = Raised(FileNotFoundError(path))
            /\ UNCHANGED env
       ELSE LET e2 == load_dotenv(env, Get(files[path]))
                r == RedisConfig_init(e2, None, None, None) IN
            /\ env' = e2
            /\ ret' = r
    /\ UNCHANGED <<files, clientVars, probe>>

\* Whether the call made last handed the caller a RedisConfig object.
BuiltConfig ==
    call.op \in {"RedisConfig", "from_env"} /\ ret.kind = "returned"

\* config.get_password_preview(), config being the object just built
PasswordPreview ==
    /\ BuiltConfig
    /\ call' = [op |-> "get_password_preview", args |-> <<ret.val>>]
    /\ ret' = Returned(get_password_preview(ret.val.password))
    /\ UNCHANGED <<env, files, clientVars, probe>>

-----------------------------------------------------------------------------
(* The redis-py library and the Redis server behind it.                    *)

\* redis.exceptions: each class with the class it derives from.
Bases ==
    [t \in {"ConnectionError", "TimeoutError", "ResponseError",
            "AuthenticationError", "BusyLoadingError", "RedisError"} |->
        CASE t \in {"AuthenticationError", "BusyLoadingError"} -> "ConnectionError"
          [] t = "RedisError" -> "Exception"
          [] OTHER -> "RedisError"]

RECURSIVE IsSubclass(_, _)
IsSubclass(t, cls) ==
    \/ t = cls
    \/ t \in DOMAIN Bases /\ IsSubclass(Bases[t], cls)

\* isinstance(e, cls), which an `except cls` clause tests.
IsInstance(e, cls) == IsSubclass(e.type, cls)

\* What the transport and the server may do to one command besides serving
\* it: refuse or lose the connection, time out, or reply with an error that
\* does not depend on the command's target (no permission, out of memory,
\* unknown command because the module is not loaded).
Faults == {"ConnectionError", "TimeoutError", "ResponseError"}
Nets == {"ok"} \cup Faults

FaultError(net) ==
    [type |-> net,
     reason |-> IF net = "ResponseError" THEN "other" ELSE "transport"]
ResponseError(reason) == [type |-> "ResponseError", reason |-> reason]

-----------------------------------------------------------------------------
(* Values the server stores.                                               *)

\* JSON values, and the Python values json.dumps accepts, tagged by kind:
\* "obj" (dict), "arr" (list), "tup" (Python tuple), "str", "num", "bool",
\* "null" (None). v is a function for obj, a sequence for arr and tup.
JObj(f) == [t |-> "obj", v |-> f]
JArr(q) == [t |-> "arr", v |-> q]
JTup(q) == [t |-> "tup", v |-> q]
JStr(x) == [t |-> "str", v |-> x]
JNum(n) == [t |-> "num", v |-> n]
JBool(x) == [t |-> "bool", v |-> x]
JNull == [t |-> "null", v |-> 0]

\* json.dumps followed by the server's parse: a tuple is written as an
\* array, everything else keeps its kind.
RECURSIVE dumps(_)
dumps(x) ==
    CASE x.t = "obj" -> JObj([k \in DOMAIN x.v |-> dumps(x.v[k])])
      [] x.t \in {"arr", "tup"} -> JArr([i \in DOMAIN x.v |-> dumps(x.v[i])])
      [] OTHER -> x

\* The nodes of doc a JSONPath selects; path is the member names after "$".
RECURSIVE Select(_, _)
Select(doc, path) ==
    IF path = <<>> THEN <<doc>>
    ELSE IF doc.t = "obj" /\ Head(path) \in DOMAIN doc.v
         THEN Select(doc.v[Head(path)], Tail(path))
         ELSE <<>>

\* doc with the node at path replaced by x (a new member of an existing
\* object is added); None when the path leads nowhere.
RECURSIVE Assign(_, _, _)
Assign(doc, path, x) ==
    IF path = <<>> THEN Some(x)
    ELSE IF doc.t # "obj" THEN None
    ELSE IF Len(path) = 1
         THEN Some(JObj([k \in DOMAIN doc.v \cup {path[1]} |->
                            IF k = path[1] THEN x ELSE doc.v[k]]))
    ELSE IF Head(path) \notin DOMAIN doc.v THEN None
    ELSE LET sub == Assign(doc.v[Head(path)], Tail(path), x) IN
         IF IsNone(sub) THEN None
         ELSE Some(JObj([doc.v EXCEPT ![Head(path)] = Get(sub)]))

\* A JSONPath string as the library receives it: "$" followed by member
\* names; "" is the empty string.
RootPath == <<"$">>
AgePath == <<"$", "profile", "age">>
IsJsonPath(path) == Len(path) > 0 /\ path[1] = "$"

HasPrefix(k, prefix) ==
    Len(prefix) <= Len(k) /\ SubSeq(k, 1, Len(prefix)) = prefix

\* The full-text engine compares terms without regard to case.
Lower(w) ==
    CASE w = "Redis" -> "redis" [] w = "Stack" -> "stack" [] w = "Python" -> "python"
      [] OTHER -> w

\* Whether a hash matches a query term: "*" matches every document, a word
\* matches when one of the schema's TEXT fields holds it.
Matches(doc, schema, q) ==
    \/ q = "*"
    \/ \E i \in DOMAIN schema :
          /\ schema[i].type = "TEXT"
          /\ schema[i].name \in DOMAIN doc
          /\ \E j \in DOMAIN doc[schema[i].name] :
                Lower(doc[schema[i].name][j]) = Lower(q)

\* Query(query_string) asks for the first DefaultPageSize results (the
\* library's default paging, offset 0): `total` counts every match, `docs`
\* holds one page of them.
DefaultPageSize == 10
Page(hits) ==
    IF Cardinality(hits) <= DefaultPageSize THEN hits
    ELSE CHOOSE page \in SUBSET hits : Cardinality(page) = DefaultPageSize

-----------------------------------------------------------------------------
(* The arguments the operations are called with.                           *)

IndexNames == {"blog-idx"}
BlogPrefix == <<"b", ":">>
\* RedisSearchHelper.create_blog_schema
BlogSchema ==
    <<[name |-> "title", type |-> "TEXT"], [name |-> "content", type |-> "TEXT"],
      [name |-> "tags", type |-> "TAG"], [name |-> "doc_score", type |-> "NUMERIC"]>>
TitleSchema == <<[name |-> "title", type |-> "TEXT"]>>
IndexDefs == {[prefix |-> BlogPrefix, schema |-> sc] : sc \in {BlogSchema, TitleSchema}}

DocKey == <<"b", ":", "1">>
Keys == {DocKey}
Values == {<<"v">>}
KeyLists == {<<>>, <<DocKey>>}

\* RedisSearchHelper.create_sample_blog_post, each text as its words.
SampleBlogPost ==
    [title |-> <<"Redis", "Stack", "Tutorial">>,
     content |-> <<"Learn", "how", "to", "use", "Redis", "Stack", "with", "Python">>,
     tags |-> <<"redis,python,tutorial">>,
     doc_score |-> <<"0.8">>]
Mappings == {SampleBlogPost}
Queries == {"Redis"}

\* RedisJSONHelper.create_sample_user
SampleUser ==
    JObj([name |-> JStr("John Doe"),
          email |-> JStr("john@example.com"),
          profile |-> JObj([age |-> JNum(30),
                            interests |-> JArr(<<JStr("Redis"), JStr("Python"),
                                                 JStr("AI")>>)])])
JsonWrites == {<<RootPath, SampleUser>>, <<AgePath, JNum(30)>>}
JsonReadPaths == {None, Some(AgePath)}

ModuleNames == {"search", "nonexistent"}

-----------------------------------------------------------------------------
(* The Redis server.                                                       *)

EmptyStore ==
    [indexes |-> [n \in IndexNames |-> None], keys |-> [k \in Keys |-> None]]

ServerInfo == [redis_version |-> "7.2.0", used_memory |-> 1, connected_clients |-> 1]
ServerModules == {[name |-> "search", ver |-> 20800], [name |-> "ReJSON", ver |-> 20600]}

Entry(type, val) == Some([type |-> type, val |-> val])
Holds(st, k, type) == ~IsNone(st.keys[k]) /\ Get(st.keys[k]).type = type
WrongType == ResponseError("WRONGTYPE")

\* The server serving one command: [out, store].
Execute(cmd, args) ==
    CASE cmd = "PING" -> [out |-> Returned(TRUE), store |-> store]
      [] cmd = "INFO" -> [out |-> Returned(ServerInfo), store |-> store]
      [] cmd = "MODULE LIST" -> [out |-> Returned(ServerModules), store |-> store]
      [] cmd = "SET" ->
            [out |-> Returned(TRUE),
             store |-> [store EXCEPT !.keys[args[1]] = Entry("string", args[2])]]
      [] cmd = "GET" ->
            IF IsNone(store.keys[args[1]])
            THEN [out |-> Returned(None), store |-> store]
            ELSE IF Holds(store, args[1], "string")
            THEN [out |-> Returned(Some(Get(store.keys[args[1]]).val)), store |-> store]
            ELSE [out |-> Raised(WrongType), store |-> store]
      [] cmd = "DEL" ->
            IF args = <<>>
            THEN [out |-> Raised(ResponseError("wrong number of arguments")),
                  store |-> store]
            ELSE LET named == {args[i] : i \in DOMAIN args} IN
                 [out |-> Returned(Cardinality({k \in named : ~IsNone(store.keys[k])})),
                  store |-> [store EXCEPT !.keys =
                                [k \in DOMAIN @ |-> IF k \in named THEN None ELSE @[k]]]]
      [] cmd = "HSET" ->
            IF ~IsNone(store.keys[args[1]]) /\ ~Holds(store, args[1], "hash")
            THEN [out |-> Raised(WrongType), store |-> store]
            ELSE LET old == IF IsNone(store.keys[args[1]]) THEN <<>>
                            ELSE Get(store.keys[args[1]]).val
                     new == [f \in DOMAIN old \cup DOMAIN args[2] |->
                                IF f \in DOMAIN args[2] THEN args[2][f] ELSE old[f]] IN
                 [out |-> Returned(Cardinality(DOMAIN args[2] \ DOMAIN old)),
                  store |-> [store EXCEPT !.keys[args[1]] = Entry("hash", new)]]
      [] cmd = "FT.CREATE" ->
            IF ~IsNone(store.indexes[args[1]])
            THEN [out |-> Raised(ResponseError("Index already exists")),
                  store |-> store]
            ELSE [out |-> Returned("OK"),
                  store |-> [store EXCEPT !.indexes[args[1]] =
                                Some([prefix |-> args[2], schema |-> args[3]])]]
      [] cmd = "FT.DROPINDEX" ->
            IF IsNone(store.indexes[args[1]])
            THEN [out |-> Raised(ResponseError("Unknown Index name")),
                  store |-> store]
            ELSE [out |-> Returned("OK"),
                  store |-> [store EXCEPT !.indexes[args[1]] = None]]
      [] cmd = "FT.SEARCH" ->
            IF IsNone(store.indexes[args[1]])
            THEN [out |-> Raised(ResponseError("Unknown Index name")),
                  store |-> store]
            ELSE LET def == Get(store.indexes[args[1]])
                     hits == {k \in DOMAIN store.keys :
                                /\ Holds(store, k, "hash")
                                /\ HasPrefix(k, def.prefix)
                                /\ Matches(Get(store.keys[k]).val, def.schema, args[2])} IN
                 [out |-> Returned([total |-> Cardinality(hits),
                                    docs |-> {[id |-> k] : k \in Page(hits)}]),
                  store |-> store]
      [] cmd = "JSON.SET" ->
            LET k == args[1]
                path == Tail(args[2])
                x == dumps(args[3]) IN
            IF ~IsJsonPath(args[2])
            THEN [out |-> Raised(ResponseError("JSON path error")), store |-> store]
            ELSE IF ~IsNone(store.keys[k]) /\ ~Holds(store, k, "json")
            THEN [out |-> Raised(WrongType), store |-> store]
            ELSE IF IsNone(store.keys[k])
            THEN IF path = <<>>
                 THEN [out |-> Returned(TRUE),
                       store |-> [store EXCEPT !.keys[k] = Entry("json", x)]]
                 ELSE [out |-> Raised(ResponseError("new objects must be created at the root")),
                       store |-> store]
            ELSE LET new == Assign(Get(store.keys[k]).val, path, x) IN
                 IF IsNone(new) THEN [out |-> Returned(None), store |-> store]
                 ELSE [out |-> Returned(TRUE),
                       store |-> [store EXCEPT !.keys[k] = Entry("json", Get(new))]]
      [] cmd = "JSON.GET" ->
            LET k == args[1] IN
            IF IsNone(store.keys[k]) THEN [out |-> Returned(None), store |-> store]
            ELSE IF ~Holds(store, k, "json")
            THEN [out |-> Raised(WrongType), store |-> store]
            ELSE IF Len(args) = 1
            THEN [out |-> Returned(Some(Get(store.keys[k]).val)), store |-> store]
            ELSE IF ~IsJsonPath(args[2])
            THEN [out |-> Raised(ResponseError("JSON path error")), store |-> store]
            ELSE [out |-> Returned(Some(Select(Get(store.keys[k]).val, Tail(args[2])))),
                  store |-> store]

\* One library call on a handle: a fault raises its error and leaves the
\* server as it was, otherwise the server serves the command.
Command(cmd, args, net) ==
    IF net = "ok" THEN Execute(cmd, args)
    ELSE [out |-> Raised(FaultError(net)), store |-> store]

-----------------------------------------------------------------------------
(* RedisStackClient.                                                       *)

Clients == {"A", "B"}
ClientOrder == [c \in Clients |-> IF c = "A" THEN 1 ELSE 2]

\* The settings objects clients are built with.
ClientConfigs ==
    {RedisConfig_init([n \in EnvNames |-> None], h, Some(6381), None).val :
        h \in {Some(<<"p", "h">>)}}

Constructed(c) == ~IsNone(config[c])

\* Mutant: redis.Redis() with the library's defaults, the settings ignored.
NewRedis_from_defaults(c) ==
    [owner |-> c, host |-> DefaultHost, port |-> 6379, password |-> None]

\* redis.Redis(host, port, password, decode_responses=True) for client c.
NewRedis(c) ==
    [owner |-> c, host |-> Get(config[c]).host, port |-> Get(config[c]).port,
     password |-> Get(config[c]).password]

\* The redis.Redis objects with one more, obj, created under identity id.
Created(cs, id, obj) ==
    [created |-> IF id > cs.created THEN id ELSE cs.created,
     open |-> [i \in DOMAIN cs.open \cup {id} |-> IF i = id THEN obj ELSE cs.open[i]]]

\* The redis.Redis objects with object id released.
Released(cs, id) ==
    [cs EXCEPT !.open = [i \in DOMAIN cs.open \ {id} |-> cs.open[i]]]

NoConns == [created |-> 0, open |-> <<>>]

\* Mutant: a new redis.Redis on every access, the guard on None dropped.
client_always_new(c) ==
    [id |-> conns.created + 1,
     conns |-> Created(conns, conns.created + 1, NewRedis(c))]

\* The `client` property: the handle, created when _client is None.
\* [id, conns]: the handle returned and the redis.Redis objects afterwards.
client(c) ==
    IF IsNone(_client[c])
    THEN [id |-> conns.created + 1,
          conns |-> Created(conns, conns.created + 1, NewRedis(c))]
    ELSE [id |-> Get(_client[c]), conns |-> conns]

\* A method that reads self.client runs on a built client, and within the
\* model's bound on redis.Redis objects.
CanUse(c) == Constructed(c) /\ client(c).conns.created <= MaxConns

\* A method of client c that evaluates self.client and makes one library
\* call, r = [out, store]; `out` is what the method hands back. The call
\* record keeps what the transport did (net) and what the library call
\* itself returned or raised (raw).
Invoke(c, op, args, net, r, out) ==
    /\ CanUse(c)
    /\ _client' = [_client EXCEPT ![c] = Some(client(c).id)]
    /\ conns' = client(c).conns
    /\ store' = r.store
    /\ call' = [op |-> op, self |-> c, args |-> args, net |-> net, raw |-> r.out]
    /\ ret' = out
    /\ UNCHANGED <<config, entered, configVars, probe>>

\* RedisStackClient(config): object c is built, the objects being named in
\* the order in which they are built.
RedisStackClient(c, cf) ==
    /\ ~Constructed(c)
    /\ \A d \in Clients : ClientOrder[d] < ClientOrder[c] => Constructed(d)
    /\ config' = [config EXCEPT ![c] = Some(cf)]
    /\ _client' = [_client EXCEPT ![c] = None]
    /\ call' = [op |-> "RedisStackClient", self |-> c, args |-> <<cf>>,
                net |-> "none", raw |-> Returned(None)]
    /\ ret' = Returned(c)
    /\ UNCHANGED <<conns, entered, store, configVars, probe>>

\* RedisStackClient.ping
ping(c, net) ==
    LET r == Command("PING", <<>>, net) IN
    Invoke(c, "ping", <<>>, net, r,
           IF r.out.kind = "raised" /\ IsInstance(r.out.val, "ConnectionError")
           THEN Returned(FALSE) ELSE r.out)

\* RedisStackClient.get_info
get_info(c, net) ==
    LET r == Command("INFO", <<>>, net) IN
    Invoke(c, "get_info", <<>>, net, r, r.out)

\* RedisStackClient.get_version: info.get("redis_version", "unknown")
get_version(c, net) ==
    LET r == Command("INFO", <<>>, net) IN
    Invoke(c, "get_version", <<>>, net, r,
           IF r.out.kind = "raised" THEN r.out
           ELSE IF "redis_version" \in DOMAIN r.out.val
                THEN Returned(r.out.val.redis_version)
                ELSE Returned("unknown"))

\* RedisStackClient.get_modules
get_modules(c, net) ==
    LET r == Command("MODULE LIST", <<>>, net) IN
    Invoke(c, "get_modules", <<>>, net, r, r.out)

\* RedisStackClient.has_module
has_module(c, module_name, net) ==
    LET r == Command("MODULE LIST", <<>>, net) IN
    Invoke(c, "has_module", <<module_name>>, net, r,
           IF r.out.kind = "raised" THEN r.out
           ELSE Returned(\E mod \in r.out.val : mod.name = module_name))

\* Mutant: create_search_index swallowing the server's error, as drop does.
create_search_index_swallows(c, index_name, prefix, schema, net) ==
    LET r == Command("FT.CREATE", <<index_name, prefix, schema>>, net) IN
    Invoke(c, "create_search_index", <<index_name, prefix, schema>>, net, r,
           IF r.out.kind = "raised" /\ IsInstance(r.out.val, "ResponseError")
           THEN Returned(None) ELSE IF r.out.kind = "raised" THEN r.out
           ELSE Returned(None))

\* RedisStackClient.create_search_index
create_search_index(c, index_name, prefix, schema, net) ==
    LET r == Command("FT.CREATE", <<index_name, prefix, schema>>, net) IN
    Invoke(c, "create_search_index", <<index_name, prefix, schema>>, net, r,
           IF r.out.kind = "raised" THEN r.out ELSE Returned(None))

\* Mutant: drop_search_index without the except clause.
drop_search_index_uncaught(c, index_name, net) ==
    LET r == Command("FT.DROPINDEX", <<index_name>>, net) IN
    Invoke(c, "drop_search_index", <<index_name>>, net, r,
           IF r.out.kind = "raised" THEN r.out ELSE Returned(None))

\* RedisStackClient.drop_search_index
drop_search_index(c, index_name, net) ==
    LET r == Command("FT.DROPINDEX", <<index_name>>, net) IN
    Invoke(c, "drop_search_index", <<index_name>>, net, r,
           IF r.out.kind = "raised" /\ ~IsInstance(r.out.val, "ResponseError")
           THEN r.out ELSE Returned(None))

\* Mutant: set that keeps the value of a key that exists already.
set_if_absent(c, key, value, net) ==
    LET r == IF net = "ok" /\ ~IsNone(store.keys[key])
             THEN [out |-> Returned(TRUE), store |-> store]
             ELSE Command("SET", <<key, value>>, net) IN
    Invoke(c, "set", <<key, value>>, net, r, r.out)

\* RedisStackClient.set
set(c, key, value, net) ==
    LET r == Command("SET", <<key, value>>, net) IN
    Invoke(c, "set", <<key, value>>, net, r, r.out)

\* RedisStackClient.get
get(c, key, net) ==
    LET r == Command("GET", <<key>>, net) IN
    Invoke(c, "get", <<key>>, net, r, r.out)

\* Mutant: delete reporting how many keys it was given.
delete_counts_arguments(c, keys, net) ==
    LET r == Command("DEL", keys, net) IN
    Invoke(c, "delete", keys, net, r,
           IF r.out.kind = "raised" THEN r.out ELSE Returned(Len(keys)))

\* RedisStackClient.delete
delete(c, keys, net) ==
    LET r == Command("DEL", keys, net) IN
    Invoke(c, "delete", keys, net, r, r.out)

\* RedisStackClient.add_document
add_document(c, key, mapping, net) ==
    LET r == Command("HSET", <<key, mapping>>, net) IN
    Invoke(c, "add_document", <<key, mapping>>, net, r, r.out)

\* RedisStackClient.search
search(c, index_name, query_string, net) ==
    LET r == Command("FT.SEARCH", <<index_name, query_string>>, net) IN
    Invoke(c, "search", <<index_name, query_string>>, net, r, r.out)

\* Mutant: json_set handing the library the text of the value, which the
\* server then stores as a JSON string.
json_set_as_text(c, key, path, value, net) ==
    LET r == Command("JSON.SET", <<key, path, JStr("json.dumps(value)")>>, net) IN
    Invoke(c, "json_set", <<key, path, value>>, net, r, r.out)

\* Mutant: json_set below the root replacing the object that holds the
\* addressed member by one holding that member alone.
json_set_drops_siblings(c, key, path, value, net) ==
    LET r == IF Len(path) > 1
             THEN Command("JSON.SET",
                          <<key, SubSeq(path, 1, Len(path) - 1),
                            JObj([m \in {path[Len(path)]} |-> value])>>, net)
             ELSE Command("JSON.SET", <<key, path, value>>, net) IN
    Invoke(c, "json_set", <<key, path, value>>, net, r, r.out)

\* RedisStackClient.json_set
json_set(c, key, path, value, net) ==
    LET r == Command("JSON.SET", <<key, path, value>>, net) IN
    Invoke(c, "json_set", <<key, path, value>>, net, r, r.out)

\* RedisStackClient.json_get: a None or empty path reads the whole document.
json_get(c, key, path, net) ==
    LET r == IF TruthyStr(path) THEN Command("JSON.GET", <<key, Get(path)>>, net)
             ELSE Command("JSON.GET", <<key>>, net) IN
    Invoke(c, "json_get", <<key, path>>, net, r, r.out)

\* What self._client.close() may do: release the connection, or raise.
Releases == {"ok", "ConnectionError"}

\* Mutant: close() that releases the connection and keeps the handle.
close_body_keeps_handle(c, rel) ==
    IF ~IsNone(_client[c])
    THEN IF rel = "ok"
         THEN [handle |-> _client[c],
               conns |-> Released(conns, Get(_client[c])),
               out |-> Returned(None), net |-> rel]
         ELSE [handle |-> _client[c], conns |-> conns,
               out |-> Raised(FaultError(rel)), net |-> rel]
    ELSE [handle |-> None, conns |-> conns, out |-> Returned(None),
          net |-> "none"]

\* Mutant: close() that clears the handle before releasing, so that the
\* handle is None even when the release raises.
close_body_clears_first(c, rel) ==
    IF ~IsNone(_client[c])
    THEN IF rel = "ok"
         THEN [handle |-> None,
               conns |-> Released(conns, Get(_client[c])),
               out |-> Returned(None), net |-> rel]
         ELSE [handle |-> None, conns |-> conns,
               out |-> Raised(FaultError(rel)), net |-> rel]
    ELSE [handle |-> None, conns |-> conns, out |-> Returned(None),
          net |-> "none"]

\* The body of close(): [handle, conns, out, net], the client's _client and
\* the redis.Redis objects afterwards, what close() hands back, and what the
\* release did ("none" when there was no handle to release).
close_body(c, rel) ==
    IF ~IsNone(_client[c])
    THEN IF rel = "ok"
         THEN [handle |-> None,
               conns |-> Released(conns, Get(_client[c])),
               out |-> Returned(None), net |-> rel]
         ELSE [handle |-> _client[c], conns |-> conns,
               out |-> Raised(FaultError(rel)), net |-> rel]
    ELSE [handle |-> None, conns |-> conns, out |-> Returned(None),
          net |-> "none"]

\* RedisStackClient.close
close(c, rel) ==
    LET b == close_body(c, rel) IN
    /\ Constructed(c)
    /\ _client' = [_client EXCEPT ![c] = b.handle]
    /\ conns' = b.conns
    /\ call' = [op |-> "close", self |-> c, args |-> <<>>, net |-> b.net,
                raw |-> b.out]
    /\ ret' = b.out
    /\ UNCHANGED <<config, entered, store, configVars, probe>>

\* RedisStackClient.__enter__
Enter(c) ==
    /\ Constructed(c)
    /\ c \notin entered
    /\ entered' = entered \cup {c}
    /\ call' = [op |-> "__enter__", self |-> c, args |-> <<>>, net |-> "none",
                raw |-> Returned(None)]
    /\ ret' = Returned(c)
    /\ UNCHANGED <<config, _client, conns, store, configVars, probe>>

\* The exception travelling up the stack, if any: the one the last call
\* raised, or the one an __exit__ was handed and, returning None, let pass.
Propagating ==
    IF ret.kind = "raised" THEN Some(ret.val)
    ELSE IF call.op = "__exit__" THEN call.args[1]
    ELSE None

\* Mutant: __exit__ that closes only when the block ended without an error.
Exit_skips_close_on_error(c, exc_val, rel) ==
    LET b == IF IsNone(exc_val) THEN close_body(c, rel)
             ELSE [handle |-> _client[c], conns |-> conns,
                   out |-> Returned(None), net |-> "none"] IN
    /\ c \in entered
    /\ exc_val \in {None, Propagating}
    /\ entered' = entered \ {c}
    /\ _client' = [_client EXCEPT ![c] = b.handle]
    /\ conns' = b.conns
    /\ call' = [op |-> "__exit__", self |-> c, args |-> <<exc_val>>, net |-> b.net,
                raw |-> b.out]
    /\ ret' = b.out
    /\ UNCHANGED <<config, store, configVars, probe>>

\* RedisStackClient.__exit__, ending the managed block of c; exc_val is None
\* when the block ended normally, the exception leaving it otherwise.
Exit(c, exc_val, rel) ==
    LET b == close_body(c, rel) IN
    /\ c \in entered
    /\ exc_val \in {None, Propagating}
    /\ entered' = entered \ {c}
    /\ _client' = [_client EXCEPT ![c] = b.handle]
    /\ conns' = b.conns
    /\ call' = [op |-> "__exit__", self |-> c, args |-> <<exc_val>>, net |-> b.net,
                raw |-> b.out]
    /\ ret' = b.out
    /\ UNCHANGED <<config, store, configVars, probe>>

NoCall == [op |-> "none", args |-> <<>>]

\* scripts/test_redis_connection.py before it is run: where it stands (pc),
\* the loop variable of wait_for_redis (attempt), the seconds spent in
\* time.sleep (slept), how wait_for_redis ended (waited: "no" while it has
\* not, then "true", "false" or "raised"), the library calls made and the
\* sleeps taken, in order (log), the exit code of the process (exit), and the modules of the
\* server it talks to (modules).
ProbeIdle ==
    [pc |-> "idle", attempt |-> 0, slept |-> 0, waited |-> "no", log |-> <<>>,
     exit |-> None, modules |-> ServerModules]

InitConfig ==
    /\ env \in Environments
    /\ files \in FileSystems
    /\ config = [c \in Clients |-> None]
    /\ _client = [c \in Clients |-> None]
    /\ conns = NoConns
    /\ entered = {}
    /\ store = EmptyStore
    /\ call = NoCall
    /\ ret = Returned(None)
    /\ probe = ProbeIdle

NextConfig ==
    \/ \E h \in HostArgs, p \in PortArgs, w \in PwArgs : NewRedisConfig(h, p, w)
    \/ \E path \in PathArgs : from_env(path)
    \/ PasswordPreview

SpecConfig == InitConfig /\ [][NextConfig]_vars

\* No client object exists yet, the server holds nothing.
Init ==
    /\ env = [n \in EnvNames |-> None]
    /\ files = [p \in Paths |-> None]
    /\ config = [c \in Clients |-> None]
    /\ _client = [c \in Clients |-> None]
    /\ conns = NoConns
    /\ entered = {}
    /\ store = EmptyStore
    /\ call = NoCall
    /\ ret = Returned(None)
    /\ probe = ProbeIdle

Next ==
    \/ \E c \in Clients, cf \in ClientConfigs : RedisStackClient(c, cf)
    \/ \E c \in Clients, net \in Nets : ping(c, net)
    \/ \E c \in Clients, net \in Nets : get_info(c, net)
    \/ \E c \in Clients, net \in Nets : get_version(c, net)
    \/ \E c \in Clients, net \in Nets : get_modules(c, net)
    \/ \E c \in Clients, m \in ModuleNames, net \in Nets : has_module(c, m, net)
    \/ \E c \in Clients, n \in IndexNames, d \in IndexDefs, net \in Nets :
          create_search_index(c, n, d.prefix, d.schema, net)
    \/ \E c \in Clients, n \in IndexNames, net \in Nets : drop_search_index(c, n, net)
    \/ \E c \in Clients, k \in Keys, v \in Values, net \in Nets : set(c, k, v, net)
    \/ \E c \in Clients, k \in Keys, net \in Nets : get(c, k, net)
    \/ \E c \in Clients, ks \in KeyLists, net \in Nets : delete(c, ks, net)
    \/ \E c \in Clients, k \in Keys, m \in Mappings, net \in Nets :
          add_document(c, k, m, net)
    \/ \E c \in Clients, n \in IndexNames, q \in Queries, net \in Nets :
          search(c, n, q, net)
    \/ \E c \in Clients, k \in Keys, w \in JsonWrites, net \in Nets :
          json_set(c, k, w[1], w[2], net)
    \/ \E c \in Clients, k \in Keys, path \in JsonReadPaths, net \in Nets :
          json_get(c, k, path, net)
    \/ \E c \in Clients, rel \in Releases : close(c, rel)
    \/ \E c \in Clients : Enter(c)
    \/ \E c \in Clients, rel \in Releases : Exit(c, None, rel)
    \/ \E c \in Clients, rel \in Releases :
          ~IsNone(Propagating) /\ Exit(c, Propagating, rel)

Spec == Init /\ [][Next]_vars

-----------------------------------------------------------------------------
(* One client and the data it keeps: strings, hashes and JSON documents.   *)

\* The settings objects the client is built with: explicit host and port
\* without a credential, and the defaults with a credential.
DataConfigs ==
    {RedisConfig_init([n \in EnvNames |-> None], Some(<<"p", "h">>), Some(6381), None).val,
     RedisConfig_init([n \in EnvNames |-> None], None, None, Some(<<"s">>)).val}

UserKey == <<"u", ":", "1">>
DataKeys == {DocKey, UserKey}
DataValues == {<<"v">>, <<"w">>}
\* delete(), delete(k), delete(k, k) and delete(k1, k2)
DataKeyLists == {<<>>, <<DocKey>>, <<DocKey, DocKey>>, <<DocKey, UserKey>>}

\* One document of each JSON kind, and a dict holding a Python tuple.
\* (a sequence: the values are of different kinds)
JsonValues ==
    <<SampleUser,
      JArr(<<JNum(1), JStr("a")>>),
      JStr("s"), JNum(30), JBool(TRUE), JNull,
      JObj([point |-> JTup(<<JNum(1), JNum(2)>>)])>>
\* json_set arguments <<path, value>>: each value at the root, and an age.
DataJsonWrites ==
    [i \in 1..Len(JsonValues) |-> <<RootPath, JsonValues[i]>>]
        \o <<<<AgePath, JNum(31)>>>>
DataJsonReadPaths == {None, Some(<<>>), Some(AgePath)}

DataStore ==
    [indexes |-> [n \in IndexNames |-> None], keys |-> [k \in DataKeys |-> None]]

\* self.config.get_password_preview(), on the settings client c holds
HeldPasswordPreview(c) ==
    /\ Constructed(c)
    /\ call' = [op |-> "get_password_preview", self |-> c,
                args |-> <<Get(config[c])>>, net |-> "none", raw |-> Returned(None)]
    /\ ret' = Returned(get_password_preview(Get(config[c]).password))
    /\ UNCHANGED <<config, _client, conns, entered, store, configVars, probe>>

InitData ==
    /\ env = [n \in EnvNames |-> None]
    /\ files = [p \in Paths |-> None]
    /\ config = [c \in Clients |-> None]
    /\ _client = [c \in Clients |-> None]
    /\ conns = NoConns
    /\ entered = {}
    /\ store = DataStore
    /\ call = NoCall
    /\ ret = Returned(None)
    /\ probe = ProbeIdle

NextData ==
    \/ \E cf \in DataConfigs : RedisStackClient("A", cf)
    \/ HeldPasswordPreview("A")
    \/ \E k \in DataKeys, v \in DataValues, net \in Nets : set("A", k, v, net)
    \/ \E k \in DataKeys, net \in Nets : get("A", k, net)
    \/ \E ks \in DataKeyLists, net \in Nets : delete("A", ks, net)
    \/ \E m \in Mappings, net \in Nets : add_document("A", DocKey, m, net)
    \/ \E i \in DOMAIN DataJsonWrites, net \in Nets :
          json_set("A", UserKey, DataJsonWrites[i][1], DataJsonWrites[i][2], net)
    \/ \E path \in DataJsonReadPaths, net \in Nets : json_get("A", UserKey, path, net)
    \/ \E rel \in Releases : close("A", rel)

SpecData == InitData /\ [][NextData]_vars

-----------------------------------------------------------------------------
(* Properties.                                                             *)

\* The methods that read self.client.
HandleOps ==
    {"ping", "get_info", "get_version", "get_modules", "has_module", "set",
     "get", "delete", "create_search_index", "drop_search_index",
     "add_document", "search", "json_set", "json_get"}

\* The errors of the transport: the connection refused or lost, a timeout.
TransportFaults == {"ConnectionError", "TimeoutError"}

\* Client c holds handle h, an unreleased redis.Redis object of its own.
HoldsOpen(c, h, cs) == h \in DOMAIN cs.open /\ cs.open[h].owner = c

\* C1: a close() that returns leaves the handle None and has released the
\* object the handle named; the first method that reads self.client while
\* the handle is None creates a redis.Redis object under an identity never used
\* before, so a closed object never serves again.
C1_CloseClearsAndNextUseReconnects ==
    [][\A c \in Clients :
        /\ (call'.op = "close" /\ call'.self = c /\ ret'.kind = "returned")
              => /\ IsNone(_client'[c])
                 /\ ~IsNone(_client[c]) => Get(_client[c]) \notin DOMAIN conns'.open
        /\ (call'.op \in HandleOps /\ call'.self = c /\ IsNone(_client[c]))
              => /\ ~IsNone(_client'[c])
                 /\ Get(_client'[c]) > conns.created
                 /\ Get(_client'[c]) \notin DOMAIN conns.open
                 /\ HoldsOpen(c, Get(_client'[c]), conns')
        /\ ~IsNone(_client'[c]) => Get(_client'[c]) \in DOMAIN conns'.open
      ]_vars

\* Client A, alone, used a connection, closed it and is served by a second.
C1_Witness ==
    /\ call.op \in HandleOps /\ call.self = "A"
    /\ ~Constructed("B")
    /\ _client["A"] = Some(2)
    /\ DOMAIN conns.open = {2}

\* C2: __enter__ returns the client itself; __exit__, handed an exception or
\* not, does to the handle exactly what close() does, so that when it returns
\* the handle is None and the object it named is released; a later method on
\* that client creates a new redis.Redis object.
C2_ManagedBlockCloses ==
    [][\A c \in Clients :
        /\ (call'.op = "__enter__" /\ call'.self = c)
              => ret' = Returned(c) /\ _client' = _client /\ conns' = conns
        /\ (call'.op = "__exit__" /\ call'.self = c)
              => /\ \E rel \in Releases :
                      /\ _client'[c] = close_body(c, rel).handle
                      /\ conns' = close_body(c, rel).conns
                      /\ ret' = close_body(c, rel).out
                 /\ ret'.kind = "returned"
                      => /\ IsNone(_client'[c])
                         /\ ~IsNone(_client[c])
                               => Get(_client[c]) \notin DOMAIN conns'.open
        /\ (call'.op \in HandleOps /\ call'.self = c /\ call.op = "__exit__"
            /\ call.self = c /\ IsNone(_client[c]))
              => /\ _client'[c] = Some(conns.created + 1)
                 /\ HoldsOpen(c, conns.created + 1, conns')
      ]_vars

\* A block left by an exception released the connection the client held.
C2_Witness ==
    /\ call.op = "__exit__" /\ call.self = "A"
    /\ ~IsNone(call.args[1])
    /\ call.net = "ok" /\ ret = Returned(None)
    /\ IsNone(_client["A"])
    /\ "A" \notin entered

\* No client owns two unreleased redis.Redis objects, and a handle names an
\* unreleased object of the client holding it (so no two clients share one).
OneLiveHandle ==
    \A c \in Clients :
        /\ Cardinality({i \in DOMAIN conns.open : conns.open[i].owner = c}) <= 1
        /\ ~IsNone(_client[c]) => HoldsOpen(c, Get(_client[c]), conns)
        /\ \A d \in Clients \ {c} : ~IsNone(_client[c]) => _client[c] # _client[d]

\* Construction opens nothing; a method other than close() and __exit__
\* leaves every handle that is set as it is.
HandleKept ==
    /\ call'.op = "RedisStackClient"
          => conns' = conns /\ IsNone(_client'[call'.self])
    /\ \A c \in Clients :
          (call'.op \notin {"close", "__exit__"} /\ ~IsNone(_client[c]))
             => _client'[c] = _client[c]

\* C3: constructing a client opens no connection; each client has at most
\* one connection it opened and has not closed; methods with no close()
\* between them use the same handle; no two clients hold the same handle.
C3_OneHandlePerClient == []OneLiveHandle /\ [][HandleKept]_vars

\* Both clients hold a handle, and the method called last ran on one.
C3_Witness ==
    /\ call.op \in HandleOps
    /\ ~IsNone(_client["A"]) /\ ~IsNone(_client["B"])

\* C4 (as claimed): ping() returns True when the store responds and False,
\* without raising, on a refused connection or a timeout; every other
\* method raises that connection failure.
C4_PingAbsorbsTransportFailures ==
    call.op \in HandleOps =>
        /\ (call.op = "ping" /\ call.net = "ok") => ret = Returned(TRUE)
        /\ (call.op = "ping" /\ call.net \in TransportFaults) => ret = Returned(FALSE)
        /\ (call.op # "ping" /\ call.net \in TransportFaults)
              => ret = Raised(FaultError(call.net))

\* C5: drop_search_index(name) returns normally when the server answers
\* that no index of that name exists, as it does when the server dropped the
\* index; either way the index is absent afterwards.
C5_DropMissingIndexReturns ==
    call.op = "drop_search_index" =>
        /\ call.raw = Raised(ResponseError("Unknown Index name"))
              => ret = Returned(None) /\ IsNone(store.indexes[call.args[1]])
        /\ call.raw.kind = "returned"
              => ret = Returned(None) /\ IsNone(store.indexes[call.args[1]])

\* drop_search_index was called for an index the server does not have.
C5_Witness ==
    /\ call.op = "drop_search_index"
    /\ call.raw = Raised(ResponseError("Unknown Index name"))
    /\ ret = Returned(None)

\* C6 (as claimed): the wrapper absorbs a connection failure in ping() and a
\* missing index in drop_search_index(); every other error of a library
\* call, another server error answered to drop_search_index() included,
\* reaches the caller unchanged.
C6_OnlyTwoErrorsAbsorbed ==
    (call.op \in HandleOps /\ call.raw.kind = "raised") =>
        IF call.op = "ping" /\ IsInstance(call.raw.val, "ConnectionError")
        THEN ret = Returned(FALSE)
        ELSE IF /\ call.op = "drop_search_index"
                /\ call.raw = Raised(ResponseError("Unknown Index name"))
        THEN ret = Returned(None)
        ELSE ret = call.raw

\* C7: create_search_index for a name the server already has raises the
\* library's error (the server's "Index already exists" when the server is
\* reached) and leaves the server's state, the existing definition included,
\* as it was; and no create_search_index changes a field of a client object
\* other than creating the handle of the client it runs on.
C7_CreateExistingIndexRaises ==
    [][call'.op = "create_search_index" =>
        /\ ~IsNone(store.indexes[call'.args[1]])
              => /\ ret'.kind = "raised" /\ ret' = call'.raw
                 /\ call'.net = "ok"
                       => ret' = Raised(ResponseError("Index already exists"))
                 /\ store' = store
        /\ config' = config /\ entered' = entered
        /\ \A c \in Clients :
              (c # call'.self \/ ~IsNone(_client[c])) => _client'[c] = _client[c]
      ]_vars

\* A create was refused for an index whose definition differs from the one
\* the call asked for, and that definition is still the server's.
C7_Witness ==
    /\ call.op = "create_search_index"
    /\ ret = Raised(ResponseError("Index already exists"))
    /\ ~IsNone(store.indexes[call.args[1]])
    /\ Get(store.indexes[call.args[1]]).schema # call.args[3]

\* The value the claim assigns to a setting: the argument when it is not
\* None, else the environment variable when set, else the default.
ArgElseEnv(arg, name, default) ==
    IF ~IsNone(arg) THEN arg ELSE getenv(env, name, default)

\* C8 (as claimed): host, port and credential each resolve to the constructor
\* argument whenever it is not None, else to the environment variable, else
\* to localhost / 6379 / None; the port is stored as an integer.
C8_ArgumentWinsWheneverSupplied ==
    call.op = "RedisConfig" =>
        LET host == call.args[1]
            port == call.args[2]
            password == call.args[3]
            p == IF ~IsNone(port) THEN Returned(Get(port))
                 ELSE IntOfStr(Get(getenv(env, "REDIS_PORT", Some(DefaultPortStr)))) IN
        p.kind = "returned" =>
            /\ ret.kind = "returned"
            /\ ret.val.host = Get(ArgElseEnv(host, "REDIS_HOST", Some(DefaultHost)))
            /\ ret.val.port = p.val /\ ret.val.port \in Int
            /\ ret.val.password = ArgElseEnv(password, "REDIS_PASSWORD", None)

\* C9: the preview is "None" when no credential is set; for a credential of
\* length >= 1 it has the credential's length, its first character is the
\* credential's, and every other character is an asterisk.
C9_PreviewMasksAllButFirst ==
    call.op = "get_password_preview" =>
        LET password == call.args[1].password IN
        /\ IsNone(password) => ret = Returned(NoneText)
        /\ (~IsNone(password) /\ Len(Get(password)) >= 1)
              => /\ ret.kind = "returned"
                 /\ Len(ret.val) = Len(Get(password))
                 /\ ret.val[1] = Get(password)[1]
                 /\ \A i \in 2..Len(ret.val) : ret.val[i] = "*"

\* The preview of a credential whose second character is not an asterisk.
C9_Witness ==
    /\ call.op = "get_password_preview"
    /\ ~IsNone(call.args[1].password)
    /\ Len(Get(call.args[1].password)) >= 2
    /\ Get(call.args[1].password)[2] = "s"
    /\ ret.val[2] = "*"

\* C10: from_env(path) with no file at the path raises FileNotFoundError
\* whose message carries the remediation hint, changes no environment
\* variable and hands back no settings object.
C10_FromEnvMissingFileRaises ==
    [][(call'.op = "from_env" /\ IsNone(files[EnvPathOf(call'.args[1])])) =>
        /\ ret'.kind = "raised"
        /\ ret'.val.type = "FileNotFoundError"
        /\ \E i \in DOMAIN ret'.val.message : ret'.val.message[i] = RemediationHint
        /\ env' = env
        /\ ~BuiltConfig'
      ]_vars

\* from_env was called with a path that holds no file, in an environment
\* that sets a variable.
C10_Witness ==
    /\ call.op = "from_env"
    /\ ~IsNone(call.args[1])
    /\ IsNone(files[EnvPathOf(call.args[1])])
    /\ ret.kind = "raised"
    /\ ~IsNone(env["REDIS_HOST"])

\* C11: a from_env(path) that returns keeps every environment variable that
\* was set before the call, sets each other variable to what the file gives
\* for it (and to nothing the file does not give), and returns the settings
\* RedisConfig() builds from the resulting environment; so for a variable
\* set before the call the settings hold the environment's value, not the
\* file's.
C11_FromEnvKeepsSetVariables ==
    [][(call'.op = "from_env" /\ ret'.kind = "returned") =>
        LET content == Get(files[EnvPathOf(call'.args[1])]) IN
        /\ \A n \in EnvNames :
              /\ ~IsNone(env[n]) => env'[n] = env[n]
              /\ IsNone(env[n]) => env'[n] = content[n]
        /\ ret' = RedisConfig_init(env', None, None, None)
        /\ ~IsNone(env["REDIS_HOST"]) => ret'.val.host = Get(env["REDIS_HOST"])
        /\ ~IsNone(env["REDIS_PORT"])
              => Returned(ret'.val.port) = IntOfStr(Get(env["REDIS_PORT"]))
        /\ ~IsNone(env["REDIS_PASSWORD"])
              => ret'.val.password = env["REDIS_PASSWORD"]
      ]_vars

\* from_env read a file that gives a host and a credential into an
\* environment that held another host and no credential: the settings have
\* the environment's host and the file's credential.
C11_Witness ==
    /\ call.op = "from_env" /\ ret.kind = "returned"
    /\ files[EnvPathOf(call.args[1])] = Some(FullDotenv)
    /\ ret.val.host = <<"e", "h">>
    /\ ret.val.host # Get(FullDotenv["REDIS_HOST"])
    /\ ret.val.password = FullDotenv["REDIS_PASSWORD"]
    /\ ret.val.port = 7000

\* Every redis.Redis object not yet released was created with the host, port
\* and credential of its owner's settings.
ConnsUseConfig ==
    \A i \in DOMAIN conns.open :
        LET o == conns.open[i] IN
        /\ Constructed(o.owner)
        /\ o.host = Get(config[o.owner]).host
        /\ o.port = Get(config[o.owner]).port
        /\ o.password = Get(config[o.owner]).password

\* No step changes the settings a built client holds, and a redis.Redis
\* object created by a step has the settings' host, port and credential.
ConfigKept ==
    \A c \in Clients :
        /\ Constructed(c) => config'[c] = config[c]
        /\ \A i \in DOMAIN conns'.open \ DOMAIN conns.open :
              conns'.open[i].owner = c
                 => /\ Constructed(c)
                    /\ conns'.open[i].host = Get(config[c]).host
                    /\ conns'.open[i].port = Get(config[c]).port
                    /\ conns'.open[i].password = Get(config[c]).password

\* C12: no operation of RedisConfig (get_password_preview) or of the client
\* holding it changes the host, port or credential of a RedisConfig, and
\* every connection a client creates, one created again after close()
\* included, has the host, port and credential its settings were built with.
C12_ConfigImmutable == []ConnsUseConfig /\ [][ConfigKept]_vars

\* The client built with the credential closed its first connection and
\* holds a second, created with the defaults' host and port and the credential.
C12_Witness ==
    /\ call.op \in HandleOps /\ call.self = "A"
    /\ _client["A"] = Some(2)
    /\ 2 \in DOMAIN conns.open
    /\ conns.open[2].password = Some(<<"s">>)
    /\ conns.open[2].host = DefaultHost
    /\ conns.open[2].port = 6379

\* The keys a delete call names.
Named(keys) == {keys[i] : i \in DOMAIN keys}

\* What C13 says of one delete: the number returned is the number of named
\* keys that existed before the call, and no named key exists after it; the
\* keys it does not name are left as they were.
DeleteCounts ==
    /\ ret' = Returned(Cardinality({k \in Named(call'.args) : ~IsNone(store.keys[k])}))
    /\ \A k \in Named(call'.args) : IsNone(store'.keys[k])
    /\ \A k \in DOMAIN store.keys \ Named(call'.args) : store'.keys[k] = store.keys[k]

\* C13 (amended): a delete(*keys) of one or more keys that the server serves
\* returns exactly the number of distinct named keys that existed
\* immediately before the call, and none of the named keys exists after it.
C13_DeleteReturnsExistingCount ==
    [][(call'.op = "delete" /\ call'.net = "ok" /\ call'.args # <<>>)
          => DeleteCounts]_vars

\* C13 (as claimed): every delete(*keys) the server serves, the one naming
\* no key included, returns that count (0 when it names no key).
C13_DeleteAnyArgumentsCounts ==
    [][(call'.op = "delete" /\ call'.net = "ok") => DeleteCounts]_vars

\* A delete of two distinct keys that both existed returned 2.
C13_Witness ==
    /\ call.op = "delete" /\ call.net = "ok"
    /\ call.args = <<DocKey, UserKey>>
    /\ ret = Returned(2)
    /\ \A k \in DataKeys : IsNone(store.keys[k])

\* A set the server serves leaves the key holding the string given, whatever
\* it held, and leaves the other keys alone.
SetWrites ==
    (call'.op = "set" /\ call'.net = "ok") =>
        /\ store'.keys[call'.args[1]] = Entry("string", call'.args[2])
        /\ \A k \in DOMAIN store.keys \ {call'.args[1]} : store'.keys[k] = store.keys[k]
        /\ ret' = Returned(TRUE)

\* A get the server serves changes nothing and returns the string the key
\* holds, or None when the key does not exist.
GetReads ==
    (call'.op = "get" /\ call'.net = "ok") =>
        LET k == call'.args[1] IN
        /\ store' = store
        /\ IsNone(store.keys[k]) => ret' = Returned(None)
        /\ Holds(store, k, "string") => ret' = Returned(Some(Get(store.keys[k]).val))

\* get(key) straight after a set(key, v) returns v; straight after a delete
\* naming key it returns None.
GetAfterSetOrDelete ==
    (call'.op = "get" /\ call'.net = "ok" /\ call.net = "ok") =>
        /\ (call.op = "set" /\ call.args[1] = call'.args[1])
              => ret' = Returned(Some(call.args[2]))
        /\ (call.op = "delete" /\ call'.args[1] \in Named(call.args))
              => ret' = Returned(None)

\* C14: set(key, v) makes v the value of key and a delete naming key removes
\* it, neither touching another key, and get changes nothing; so after any
\* sequence of set and delete calls get(key) returns the value of the most
\* recent set of key not followed by a delete of it, and returns None, not
\* an error, when key was never set or was last deleted.
C14_GetReturnsLatestSet ==
    [][/\ SetWrites
       /\ GetReads
       /\ GetAfterSetOrDelete
       /\ (call'.op = "delete" /\ call'.net = "ok" /\ call'.args # <<>>)
             => /\ \A k \in Named(call'.args) : IsNone(store'.keys[k])
                /\ \A k \in DOMAIN store.keys \ Named(call'.args) :
                      store'.keys[k] = store.keys[k]
      ]_vars

\* get returned the second value a key was set to, the other key being unset.
C14_Witness ==
    /\ call.op = "get" /\ call.net = "ok"
    /\ call.args = <<DocKey>>
    /\ ret = Returned(Some(<<"w">>))
    /\ store.keys[DocKey] = Entry("string", <<"w">>)
    /\ IsNone(store.keys[UserKey])

\* A JSON-representable value: an object, array, string, number, boolean or
\* null built of such values (a Python tuple is not one).
RECURSIVE IsJsonValue(_)
IsJsonValue(x) ==
    CASE x.t = "obj" -> \A k \in DOMAIN x.v : IsJsonValue(x.v[k])
      [] x.t = "arr" -> \A i \in DOMAIN x.v : IsJsonValue(x.v[i])
      [] x.t = "tup" -> FALSE
      [] OTHER -> TRUE

\* Equality of two tagged values, the kinds compared first.
RECURSIVE JEq(_, _)
JEq(x, y) ==
    /\ x.t = y.t
    /\ CASE x.t = "obj" ->
              /\ DOMAIN x.v = DOMAIN y.v
              /\ \A k \in DOMAIN x.v : JEq(x.v[k], y.v[k])
         [] x.t \in {"arr", "tup"} ->
              /\ Len(x.v) = Len(y.v)
              /\ \A i \in DOMAIN x.v : JEq(x.v[i], y.v[i])
         [] OTHER -> x.v = y.v

\* A call returned the Optional value Some(x).
ReturnedJson(r, x) ==
    r.kind = "returned" /\ r.val # None /\ JEq(Get(r.val), x)

\* A json_set at the root that returns leaves the key holding the value.
JsonRootWrite ==
    (/\ call'.op = "json_set" /\ call'.args[2] = RootPath
     /\ ret'.kind = "returned" /\ IsJsonValue(call'.args[3]))
        => /\ Holds(store', call'.args[1], "json")
           /\ JEq(Get(store'.keys[call'.args[1]]).val, call'.args[3])

\* A served json_get without a path (None or "") on a key holding a document
\* returns the whole document and changes nothing.
JsonWholeRead ==
    (/\ call'.op = "json_get" /\ ~TruthyStr(call'.args[2]) /\ call'.net = "ok"
     /\ Holds(store, call'.args[1], "json"))
        => /\ ReturnedJson(ret', Get(store.keys[call'.args[1]]).val)
           /\ store' = store

\* json_set(key, "$", v) followed by json_get(key): the read returns v.
JsonRoundTrip ==
    (/\ call.op = "json_set" /\ call.args[2] = RootPath
     /\ ret.kind = "returned" /\ IsJsonValue(call.args[3])
     /\ call'.op = "json_get" /\ call'.args[1] = call.args[1]
     /\ ~TruthyStr(call'.args[2]) /\ call'.net = "ok")
        => ReturnedJson(ret', call.args[3])

RECURSIVE NodePaths(_)
NodePaths(doc) ==
    {<<>>} \cup
    (IF doc.t = "obj"
     THEN UNION {{<<k>> \o p : p \in NodePaths(doc.v[k])} : k \in DOMAIN doc.v}
     ELSE {})

IsPrefix(p, q) == Len(p) <= Len(q) /\ SubSeq(q, 1, Len(p)) = p

\* Neither path leads to a node on the way to, at or below the other.
Apart(p, q) == ~IsPrefix(p, q) /\ ~IsPrefix(q, p)

\* A call returned a list holding exactly the value x.
ReturnedListOf(r, x) ==
    /\ r.kind = "returned" /\ r.val # None
    /\ Len(Get(r.val)) = 1
    /\ JEq(Get(r.val)[1], x)

\* A served json_get with a path that matches one node of the document
\* returns a one-element list holding the node.
JsonPathRead ==
    (/\ call'.op = "json_get" /\ TruthyStr(call'.args[2]) /\ call'.net = "ok"
     /\ IsJsonPath(Get(call'.args[2]))
     /\ Holds(store, call'.args[1], "json")
     /\ Len(Select(Get(store.keys[call'.args[1]]).val, Tail(Get(call'.args[2])))) = 1)
        => /\ ReturnedListOf(ret', Select(Get(store.keys[call'.args[1]]).val,
                                         Tail(Get(call'.args[2])))[1])
           /\ store' = store

\* json_set(key, "$", v) followed by json_get(key, "$.profile.age"), v an
\* object holding {"profile": {"age": n}}: the read returns [n].
JsonPathReadAfterWrite ==
    (/\ call.op = "json_set" /\ call.args[2] = RootPath
     /\ ret.kind = "returned" /\ IsJsonValue(call.args[3])
     /\ <<"profile", "age">> \in NodePaths(call.args[3])
     /\ call'.op = "json_get" /\ call'.args[1] = call.args[1]
     /\ call'.args[2] = Some(AgePath) /\ call'.net = "ok")
        => ReturnedListOf(ret', call.args[3].v["profile"].v["age"])

\* A served json_set below the root, addressing a member of an object of the
\* document, puts the value at the path and leaves every node that is not
\* on the way to it as it was; no other key changes.
JsonSubPathWrite ==
    (/\ call'.op = "json_set" /\ call'.net = "ok"
     /\ IsJsonPath(call'.args[2]) /\ call'.args[2] # RootPath
     /\ IsJsonValue(call'.args[3])
     /\ Holds(store, call'.args[1], "json")
     /\ LET doc == Get(store.keys[call'.args[1]]).val
            path == Tail(call'.args[2])
            parent == Select(doc, SubSeq(path, 1, Len(path) - 1)) IN
        Len(parent) = 1 /\ parent[1].t = "obj")
        => LET k == call'.args[1]
               doc == Get(store.keys[k]).val
               path == Tail(call'.args[2]) IN
           /\ Holds(store', k, "json")
           /\ LET new == Get(store'.keys[k]).val IN
              /\ Len(Select(new, path)) = 1
              /\ JEq(Select(new, path)[1], call'.args[3])
              /\ \A p \in NodePaths(doc) \cup NodePaths(new) :
                    Apart(p, path)
                       => /\ p \in NodePaths(doc) /\ p \in NodePaths(new)
                          /\ JEq(Select(new, p)[1], Select(doc, p)[1])
           /\ \A j \in DOMAIN store.keys \ {k} : store'.keys[j] = store.keys[j]

\* C16: json_get(key, path) with a path matching one node returns a
\* single-element list holding that node's value, not the bare value (after
\* {"profile": {"age": 30}} is written at "$", "$.profile.age" reads [30]);
\* a json_set at a sub-path changes only the addressed node and leaves every
\* other field of the document as it was.
C16_JsonPathReadAndWrite ==
    [][JsonPathRead /\ JsonPathReadAfterWrite /\ JsonSubPathWrite]_vars

\* "$.profile.age" reads [31] from a document whose age a json_set at that
\* path changed from 30, its other fields being those of the sample user.
C16_Witness ==
    /\ call.op = "json_get" /\ call.net = "ok"
    /\ call.args[2] = Some(AgePath)
    /\ ReturnedListOf(ret, JNum(31))
    /\ Holds(store, UserKey, "json")
    /\ \A p \in NodePaths(SampleUser) :
          Apart(p, Tail(AgePath))
             => /\ p \in NodePaths(Get(store.keys[UserKey]).val)
                /\ JEq(Select(Get(store.keys[UserKey]).val, p)[1], Select(SampleUser, p)[1])

\* A served add_document(key, mapping) leaves a hash at key holding every
\* field of mapping with the mapping's value.
AddDocumentWrites ==
    (call'.op = "add_document" /\ call'.raw.kind = "returned")
        => /\ Holds(store', call'.args[1], "hash")
           /\ \A f \in DOMAIN call'.args[2] :
                 /\ f \in DOMAIN Get(store'.keys[call'.args[1]]).val
                 /\ Get(store'.keys[call'.args[1]]).val[f] = call'.args[2][f]

\* What add_document hands back for a served write is true in a condition:
\* bool(n) of the integer returned.
AddDocumentReturnsTrue ==
    (call'.op = "add_document" /\ call'.raw.kind = "returned")
        => ret'.kind = "returned" /\ ret'.val # 0

\* C18: add_document(key, mapping) writes a hash record at key holding every
\* field of mapping and returns a success indicator that is true for every
\* write that succeeds, whether key was new or already held a record with
\* those fields.
C18_AddDocumentReturnsSuccess ==
    [][AddDocumentWrites /\ AddDocumentReturnsTrue]_vars

-----------------------------------------------------------------------------
(* One client, one index and the documents it searches.                    *)

\* The largest number of documents stored under the index prefix.
MaxDocs == 11

\* str(n) of a natural number, as in f"{key_prefix}{i}".
Digit(d) ==
    CASE d = 0 -> "0" [] d = 1 -> "1" [] d = 2 -> "2" [] d = 3 -> "3"
      [] d = 4 -> "4" [] d = 5 -> "5" [] d = 6 -> "6" [] d = 7 -> "7"
      [] d = 8 -> "8" [] OTHER -> "9"
RECURSIVE DecimalOf(_)
DecimalOf(n) ==
    IF n < 10 THEN <<Digit(n)>> ELSE Append(DecimalOf(n \div 10), Digit(n % 10))

\* f"{key_prefix}{i}"
BlogKey(i) == BlogPrefix \o DecimalOf(i)
\* A key under the prefix that holds a post without the term, and a key
\* outside the prefix.
OtherBlogKey == BlogPrefix \o <<"d", "b">>
OutsideKey == <<"n", ":", "1">>
SearchKeys == {BlogKey(i) : i \in 1..MaxDocs} \cup {OtherBlogKey, OutsideKey}

\* The third document of test_search_with_multiple_documents.
DatabasePost ==
    [title |-> <<"Database", "Design">>,
     content |-> <<"NoSQL", "database", "patterns">>,
     tags |-> <<"database,nosql">>,
     doc_score |-> <<"0.7">>]

SearchStore ==
    [indexes |-> [n \in IndexNames |-> None], keys |-> [k \in SearchKeys |-> None]]

\* The documents a run adds: the numbered posts in the order of their
\* numbers, each holding the term, and at any time the post without the
\* term and the post outside the prefix.
NextToAdd(i) ==
    /\ \A j \in 1..(i - 1) : ~IsNone(store.keys[BlogKey(j)])
    /\ \A j \in (i + 1)..MaxDocs : IsNone(store.keys[BlogKey(j)])

InitSearch ==
    /\ env = [n \in EnvNames |-> None]
    /\ files = [p \in Paths |-> None]
    /\ config = [c \in Clients |-> None]
    /\ _client = [c \in Clients |-> None]
    /\ conns = NoConns
    /\ entered = {}
    /\ store = SearchStore
    /\ call = NoCall
    /\ ret = Returned(None)
    /\ probe = ProbeIdle

NextSearch ==
    \/ \E cf \in ClientConfigs : RedisStackClient("A", cf)
    \/ \E n \in IndexNames, d \in IndexDefs, net \in Nets :
          create_search_index("A", n, d.prefix, d.schema, net)
    \/ \E n \in IndexNames, net \in Nets : drop_search_index("A", n, net)
    \/ \E i \in 1..MaxDocs, net \in Nets :
          NextToAdd(i) /\ add_document("A", BlogKey(i), SampleBlogPost, net)
    \/ \E net \in Nets : add_document("A", OtherBlogKey, DatabasePost, net)
    \/ \E net \in Nets : add_document("A", OutsideKey, SampleBlogPost, net)
    \/ \E n \in IndexNames, q \in Queries, net \in Nets : search("A", n, q, net)

SpecSearch == InitSearch /\ [][NextSearch]_vars

\* The hash documents under the prefix of index n whose TEXT fields hold q.
Matching(st, n, q) ==
    {k \in DOMAIN st.keys :
        /\ Holds(st, k, "hash")
        /\ HasPrefix(k, Get(st.indexes[n]).prefix)
        /\ Matches(Get(st.keys[k]).val, Get(st.indexes[n]).schema, q)}

\* C17: after create_search_index(name, prefix, schema) and any sequence of
\* add_document calls, search(name, term).total is the number of hash
\* documents under keys beginning with prefix whose indexed text fields
\* hold term, and each such document appears in the result with its key as
\* identifier; documents outside the prefix are never counted, and an index
\* with no documents yields total 0 and an empty document list.
C17_SearchReturnsEveryMatch ==
    [][(/\ call'.op = "search" /\ call'.net = "ok"
        /\ ~IsNone(store.indexes[call'.args[1]]))
          => LET hits == Matching(store, call'.args[1], call'.args[2]) IN
             /\ ret'.kind = "returned"
             /\ ret'.val.total = Cardinality(hits)
             /\ \A k \in hits : [id |-> k] \in ret'.val.docs
             /\ \A d \in ret'.val.docs : d.id \in hits
             /\ OutsideKey \notin hits
             /\ (\A k \in DOMAIN store.keys : IsNone(store.keys[k]))
                   => ret'.val.total = 0 /\ ret'.val.docs = {}
      ]_vars

-----------------------------------------------------------------------------
(* scripts/test_redis_connection.py, the diagnostic probe.                 *)

\* wait_for_redis(redis_client, max_retries=5, delay=2)
max_retries == 5
delay == 2

\* "test:hello" and the value stored under it; "$.profile.interests".
TestKey == <<"t", ":", "h">>
TestValue == <<"H", "e", "l", "l", "o">>
InterestsPath == <<"$", "profile", "interests">>
ProbeKeys == {TestKey, DocKey, UserKey}
ProbeIndex == "blog-idx"

\* What the server holds when the probe starts: nothing, or what an earlier
\* run or another program left (the index, a string under "blog:1").
ProbeStores ==
    LET clean == [indexes |-> [n \in IndexNames |-> None],
                  keys |-> [k \in ProbeKeys |-> None]] IN
    {clean,
     [clean EXCEPT !.indexes[ProbeIndex] =
                      Some([prefix |-> BlogPrefix, schema |-> BlogSchema])],
     [clean EXCEPT !.keys[DocKey] = Entry("string", <<"v">>)]}

\* The modules the server may have loaded.
ProbeModules == {ServerModules, {mod \in ServerModules : mod.name # "search"}}

\* os.environ when the probe starts.
ProbeEnvironments ==
    {e \in Environments : IsNone(e["REDIS_HOST"]) /\ IsNone(e["REDIS_PASSWORD"])}

\* One entry of the log: the position of the probe, what it called, what
\* the transport did and whether the call returned or raised.
Event(at, cmd, net, out) == [at |-> at, cmd |-> cmd, net |-> net, out |-> out]

\* Where the probe goes next: on to a position, or out of the process.
\* `return False` in test_redis_connection, or an exception caught by its
\* except clauses, ends in sys.exit(1) at the bottom of the script.
Goto(pc) == [pc |-> pc, exit |-> None]
SysExit(code) == [pc |-> "exited", exit |-> Some(code)]

\* redis_client.module_list() against the server the probe talks to.
ModuleList(net) ==
    IF net = "ok" THEN [out |-> Returned(probe.modules), store |-> store]
    ELSE Command("MODULE LIST", <<>>, net)

\* One library call of the probe at position pc, r = [out, store] being
\* what the call did, followed by the move to `next`.
ProbeStep(pc, cmd, net, r, next) ==
    /\ probe.pc = pc
    /\ store' = r.store
    /\ probe' = [probe EXCEPT !.pc = next.pc, !.exit = next.exit,
                              !.log = Append(@, Event(pc, cmd, net, r.out.kind))]
    /\ UNCHANGED <<configVars, config, _client, conns, entered, call, ret>>

\* Mutant: load_env going on without the settings file, as
\* conftest.load_test_env does.
load_env_skips_missing ==
    /\ probe.pc = "idle"
    /\ env' = IF IsNone(files[DefaultEnvPath]) THEN env
              ELSE load_dotenv(env, Get(files[DefaultEnvPath]))
    /\ probe' = [probe EXCEPT !.pc = "redis_client"]
    /\ UNCHANGED <<files, config, _client, conns, entered, store, call, ret>>

\* load_env, first statement of test_redis_connection. sys.exit(1) raises
\* SystemExit, which is not an Exception: no except clause of
\* test_redis_connection catches it and the process ends with code 1.
load_env ==
    /\ probe.pc = "idle"
    /\ IF IsNone(files[DefaultEnvPath])
       THEN /\ probe' = [probe EXCEPT !.pc = "exited", !.exit = Some(1)]
            /\ UNCHANGED env
       ELSE /\ env' = load_dotenv(env, Get(files[DefaultEnvPath]))
            /\ probe' = [probe EXCEPT !.pc = "redis_client"]
    /\ UNCHANGED <<files, config, _client, conns, entered, store, call, ret>>

\* int(os.getenv("REDIS_PORT", 6379))
ProbePort(e) ==
    IF IsNone(e["REDIS_PORT"]) THEN Returned(6379)
    ELSE IntOfStr(Get(e["REDIS_PORT"]))

\* test_redis_connection, the password preview and redis.Redis(...): the
\* object is built without a connection being opened; a REDIS_PORT that is
\* not a number raises ValueError, caught by `except Exception`.
redis_client_init ==
    /\ probe.pc = "redis_client"
    /\ IF ProbePort(env).kind = "raised"
       THEN /\ probe' = [probe EXCEPT !.pc = "exited", !.exit = Some(1)]
            /\ UNCHANGED conns
       ELSE /\ conns' = Created(conns, conns.created + 1,
                                [owner |-> "probe",
                                 host |-> Get(getenv(env, "REDIS_HOST", Some(DefaultHost))),
                                 port |-> ProbePort(env).val,
                                 password |-> getenv(env, "REDIS_PASSWORD", None)])
            /\ probe' = [probe EXCEPT !.pc = "wait"]
    /\ UNCHANGED <<configVars, config, _client, entered, store, call, ret>>

\* wait_for_redis: one pass of the loop. A truthy ping returns True; a
\* redis.ConnectionError is caught, followed by check_redis_logs (which
\* swallows its own errors) and time.sleep(delay) unless this was the last
\* attempt; a falsy ping goes round without a sleep; any other error leaves
\* the function and is caught by `except Exception` of test_redis_connection.
\* When the loop is exhausted the function returns False and the caller
\* returns False.
wait_for_redis(net) ==
    LET r == Command("PING", <<>>, net)
        caught == r.out.kind = "raised" /\ IsInstance(r.out.val, "ConnectionError")
        sleeps == caught /\ probe.attempt < max_retries - 1
        pinged == Append(probe.log, Event("wait", "PING", net, r.out.kind)) IN
    /\ probe.pc = "wait"
    /\ probe.attempt < max_retries
    /\ store' = r.store
    /\ probe' =
         IF r.out.kind = "returned" /\ r.out.val
         THEN [probe EXCEPT !.log = pinged, !.waited = "true", !.pc = "info"]
         ELSE IF r.out.kind = "raised" /\ ~caught
         THEN [probe EXCEPT !.log = pinged, !.waited = "raised",
                            !.pc = "exited", !.exit = Some(1)]
         ELSE [probe EXCEPT
                 !.log = IF sleeps THEN Append(pinged, Event("wait", "sleep", "none", "returned"))
                         ELSE pinged,
                 !.slept = IF sleeps THEN @ + delay ELSE @,
                 !.attempt = @ + 1,
                 !.waited = IF probe.attempt + 1 < max_retries THEN @ ELSE "false",
                 !.pc = IF probe.attempt + 1 < max_retries THEN @ ELSE "exited",
                 !.exit = IF probe.attempt + 1 < max_retries THEN @ ELSE Some(1)]
    /\ UNCHANGED <<configVars, config, _client, conns, entered, call, ret>>

\* show_redis_info: info() then module_list(); an error of either is
\* printed and swallowed, and the probe goes on.
show_redis_info(net) ==
    \/ LET r == Command("INFO", <<>>, net) IN
       ProbeStep("info", "INFO", net, r,
                 IF r.out.kind = "raised" THEN Goto("set") ELSE Goto("info_modules"))
    \/ ProbeStep("info_modules", "MODULE LIST", net, ModuleList(net), Goto("set"))

\* test_redis_connection: redis_client.set(test_key, test_value)
set_test_key(net) ==
    LET r == Command("SET", <<TestKey, TestValue>>, net) IN
    ProbeStep("set", "SET", net, r,
              IF r.out.kind = "raised" THEN SysExit(1) ELSE Goto("search_modules"))

\* test_redisearch: module check, drop of an existing index (any error
\* swallowed), create_index, hset, search. Any other exception, and a
\* server without the search module, make it return False, and the caller
\* returns False. The index is left in place.
test_redisearch(net) ==
    \/ LET r == ModuleList(net) IN
       ProbeStep("search_modules", "MODULE LIST", net, r,
                 IF r.out.kind = "raised" THEN SysExit(1)
                 ELSE IF ~\E mod \in r.out.val : mod.name = "search" THEN SysExit(1)
                 ELSE Goto("dropindex"))
    \/ ProbeStep("dropindex", "FT.DROPINDEX", net,
                 Command("FT.DROPINDEX", <<ProbeIndex>>, net), Goto("create_index"))
    \/ LET r == Command("FT.CREATE", <<ProbeIndex, BlogPrefix, BlogSchema>>, net) IN
       ProbeStep("create_index", "FT.CREATE", net, r,
                 IF r.out.kind = "raised" THEN SysExit(1) ELSE Goto("hset"))
    \/ LET r == Command("HSET", <<DocKey, SampleBlogPost>>, net) IN
       ProbeStep("hset", "HSET", net, r,
                 IF r.out.kind = "raised" THEN SysExit(1) ELSE Goto("search"))
    \/ LET r == Command("FT.SEARCH", <<ProbeIndex, "Redis">>, net) IN
       ProbeStep("search", "FT.SEARCH", net, r,
                 IF r.out.kind = "raised" THEN SysExit(1) ELSE Goto("json_set"))

\* test_redisjson: set at "$", get of the document, of "$.profile.age" and
\* of "$.profile.interests", delete of the key. Any exception makes it
\* return False, and the caller returns False.
test_redisjson(net) ==
    \/ LET r == Command("JSON.SET", <<UserKey, RootPath, SampleUser>>, net) IN
       ProbeStep("json_set", "JSON.SET", net, r,
                 IF r.out.kind = "raised" THEN SysExit(1) ELSE Goto("json_get"))
    \/ LET r == Command("JSON.GET", <<UserKey>>, net) IN
       ProbeStep("json_get", "JSON.GET", net, r,
                 IF r.out.kind = "raised" THEN SysExit(1) ELSE Goto("json_get_age"))
    \/ LET r == Command("JSON.GET", <<UserKey, AgePath>>, net) IN
       ProbeStep("json_get_age", "JSON.GET", net, r,
                 IF r.out.kind = "raised" THEN SysExit(1) ELSE Goto("json_get_interests"))
    \/ LET r == Command("JSON.GET", <<UserKey, InterestsPath>>, net) IN
       ProbeStep("json_get_interests", "JSON.GET", net, r,
                 IF r.out.kind = "raised" THEN SysExit(1) ELSE Goto("json_delete"))
    \/ LET r == Command("DEL", <<UserKey>>, net) IN
       ProbeStep("json_delete", "DEL", net, r,
                 IF r.out.kind = "raised" THEN SysExit(1) ELSE Goto("cleanup"))

\* test_redis_connection: redis_client.delete(test_key), return True, and
\* sys.exit(0 if success else 1).
delete_test_key(net) ==
    LET r == Command("DEL", <<TestKey>>, net) IN
    ProbeStep("cleanup", "DEL", net, r,
              IF r.out.kind = "raised" THEN SysExit(1) ELSE SysExit(0))

InitProbe ==
    /\ env \in ProbeEnvironments
    /\ files \in FileSystems
    /\ config = [c \in Clients |-> None]
    /\ _client = [c \in Clients |-> None]
    /\ conns = NoConns
    /\ entered = {}
    /\ store \in ProbeStores
    /\ call = NoCall
    /\ ret = Returned(None)
    /\ probe \in {[ProbeIdle EXCEPT !.modules = m] : m \in ProbeModules}

NextProbe ==
    \/ load_env
    \/ redis_client_init
    \/ \E net \in Nets : wait_for_redis(net)
    \/ \E net \in Nets : show_redis_info(net)
    \/ \E net \in Nets : set_test_key(net)
    \/ \E net \in Nets : test_redisearch(net)
    \/ \E net \in Nets : test_redisjson(net)
    \/ \E net \in Nets : delete_test_key(net)

SpecProbe == InitProbe /\ [][NextProbe]_vars

-----------------------------------------------------------------------------
(* Properties of the probe.                                                *)

\* What wait_for_redis did: its pings and sleeps, in order.
WaitLog == SelectSeq(probe.log, LAMBDA e : e.at = "wait")
Pings == {i \in DOMAIN WaitLog : WaitLog[i].cmd = "PING"}
Sleeps == {i \in DOMAIN WaitLog : WaitLog[i].cmd = "sleep"}

\* At most max_retries pings are made, and the loop variable stays below
\* max_retries while the function runs.
WaitBounded ==
    /\ Cardinality(Pings) <= max_retries
    /\ probe.pc = "wait" => probe.attempt < max_retries

\* Every sleep lasts `delay` seconds and follows a failed ping; a failed
\* ping that is followed by another ping has one sleep in between; when the
\* function has ended, the last thing it did was a ping.
WaitDelays ==
    /\ probe.slept = delay * Cardinality(Sleeps)
    /\ \A i \in Sleeps : (i - 1) \in Pings /\ WaitLog[i - 1].out = "raised"
    /\ \A i \in Pings :
          (WaitLog[i].out = "raised" /\ \E j \in Pings : j > i)
             => (i + 1) \in Sleeps /\ (i + 2) \in Pings
    /\ probe.waited # "no" => Len(WaitLog) \in Pings

\* A ping that succeeds is the last one and makes the function return True;
\* the function returns True in no other case, and returns False when it
\* has ended and no ping succeeded.
WaitResult ==
    /\ \A i \in Pings :
          WaitLog[i].out = "returned" => i = Len(WaitLog) /\ probe.waited = "true"
    /\ probe.waited = "true" => WaitLog[Len(WaitLog)].out = "returned"
    /\ (probe.waited # "no" /\ \A i \in Pings : WaitLog[i].out = "raised")
          => probe.waited = "false"

\* C19: wait_for_redis ends after at most max_retries (5) pings, with the
\* delay (2 seconds) between each failed attempt and the next and never
\* after the last; it returns true as soon as one ping succeeds, false when
\* all attempts fail, and pings no more after a successful ping.
C19_WaitForRedisRetries ==
    WaitBounded /\ WaitDelays /\ WaitResult

\* Whether the library call at a position of the probe returned, or raised.
Ok(at) ==
    \E i \in DOMAIN probe.log :
        probe.log[i].at = at /\ probe.log[i].cmd # "sleep" /\ probe.log[i].out = "returned"
Failed(at) ==
    \E i \in DOMAIN probe.log : probe.log[i].at = at /\ probe.log[i].out = "raised"

SettingsFound == ~IsNone(files[DefaultEnvPath])
SearchLoaded == \E mod \in probe.modules : mod.name = "search"
Connected == Ok("wait")
BasicPhase == Ok("set")
SearchPhase ==
    /\ Ok("search_modules") /\ SearchLoaded
    /\ Ok("create_index") /\ Ok("hset") /\ Ok("search")
JsonSteps == {"json_set", "json_get", "json_get_age", "json_get_interests", "json_delete"}
JsonPhase == \A at \in JsonSteps : Ok(at)

\* What makes the run a failure: no settings file, a port that is not a
\* number, wait_for_redis ending without a successful ping, a call of the
\* basic, search or JSON phase or of the final clean-up raising, or the
\* search module missing. (Errors of show_redis_info and of the drop of
\* a left-over index are not failures of a phase.)
ProbeFailure ==
    \/ probe.pc # "idle" /\ ~SettingsFound
    \/ probe.pc \notin {"idle", "redis_client"} /\ ProbePort(env).kind = "raised"
    \/ probe.waited \in {"false", "raised"}
    \/ \E at \in {"set", "search_modules", "create_index", "hset", "search", "cleanup"}
                   \cup JsonSteps : Failed(at)
    \/ Ok("search_modules") /\ ~SearchLoaded

\* C20: the probe exits with code 0 only when the settings file was found
\* and connectivity, the basic key phase, the search phase and the JSON
\* phase all succeeded; it exits with code 1 on any failure (missing
\* settings file, connection never established, a phase failing or
\* raising); a missing settings file ends the run before any connection is
\* attempted.
C20_ExitCode ==
    /\ probe.exit \in {None, Some(0), Some(1)}
    /\ probe.pc = "exited" <=> probe.exit # None
    /\ probe.exit = Some(0)
          => SettingsFound /\ Connected /\ BasicPhase /\ SearchPhase /\ JsonPhase
    /\ ProbeFailure => probe.exit = Some(1)
    /\ (probe.pc # "idle" /\ ~SettingsFound)
          => conns = NoConns /\ probe.log = <<>> /\ probe.exit = Some(1)

\* A run that reached the server at its second ping and ended with code 0.
C20_Witness ==
    /\ probe.exit = Some(0)
    /\ probe.slept = delay
    /\ Failed("wait")

\* The phase a position of the probe belongs to, in the order of the
\* source: 1 the basic key phase, 2 the check for the search module, 3 the
\* index phase, 4 the JSON phase, 5 the final clean-up; 0 before them.
PhaseOf(at) ==
    CASE at = "set" -> 1
      [] at = "search_modules" -> 2
      [] at \in {"dropindex", "create_index", "hset", "search"} -> 3
      [] at \in JsonSteps -> 4
      [] at = "cleanup" -> 5
      [] OTHER -> 0

\* The calls of the phases are made in the order of the phases, and none
\* before a ping has succeeded.
PhasesInOrder ==
    /\ \A i, j \in DOMAIN probe.log :
          i < j => PhaseOf(probe.log[i].at) <= PhaseOf(probe.log[j].at)
    /\ \A i \in DOMAIN probe.log :
          PhaseOf(probe.log[i].at) > 0
             => \E j \in 1..(i - 1) :
                   probe.log[j].cmd = "PING" /\ probe.log[j].out = "returned"

\* A call of a phase that raises is the last call the probe makes, the drop
\* of a left-over index apart; so is the check that finds no search module.
StopsAtFirstFailure ==
    /\ \A i \in DOMAIN probe.log :
          (/\ PhaseOf(probe.log[i].at) > 0
           /\ probe.log[i].at # "dropindex"
           /\ probe.log[i].out = "raised")
             => i = Len(probe.log) /\ probe.pc = "exited"
    /\ (Ok("search_modules") /\ ~SearchLoaded)
          => probe.log[Len(probe.log)].at = "search_modules" /\ probe.pc = "exited"

\* The calls of one phase that returned, in order.
PhaseCalls(n) ==
    LET made == SelectSeq(probe.log,
                          LAMBDA e : PhaseOf(e.at) = n /\ e.out = "returned") IN
    [i \in DOMAIN made |-> made[i].cmd]

\* Once the probe is past the basic phase, that phase has set the key and
\* then read it.
BasicSetThenGet ==
    (PhaseOf(probe.pc) > 1 \/ probe.exit = Some(0))
        => \E i, j \in DOMAIN PhaseCalls(1) :
              i < j /\ PhaseCalls(1)[i] = "SET" /\ PhaseCalls(1)[j] = "GET"

\* Once the probe is past the index phase, the index it created is gone.
IndexTornDown ==
    (PhaseOf(probe.pc) > 3 \/ probe.exit = Some(0))
        => IsNone(store.indexes[ProbeIndex])

\* Once the probe is past the index phase, that phase has created the
\* index, added the document and queried, in that order.
IndexCreatePopulateQuery ==
    (PhaseOf(probe.pc) > 3 \/ probe.exit = Some(0))
        => \E i, j, k \in DOMAIN PhaseCalls(3) :
              /\ i < j /\ j < k
              /\ PhaseCalls(3)[i] = "FT.CREATE" /\ PhaseCalls(3)[j] = "HSET"
              /\ PhaseCalls(3)[k] = "FT.SEARCH"

\* Once the probe is past the JSON phase, that phase has set the document
\* and then read a path of it.
JsonSetThenPathGet ==
    (PhaseOf(probe.pc) > 4 \/ probe.exit = Some(0))
        => /\ Ok("json_set") /\ Ok("json_get_age")
           /\ \E i, j \in DOMAIN PhaseCalls(4) :
                 i < j /\ PhaseCalls(4)[i] = "JSON.SET" /\ PhaseCalls(4)[j] = "JSON.GET"

\* C21: after connectivity is established the probe runs its phases in this
\* order and stops at the first that fails: basic key set then get, the
\* check for the search module, index create then populate then query then
\* teardown, JSON set then path get; no later phase starts after an earlier
\* one failed, and when the search phase has finished the index it created
\* has been torn down.
C21_PhasesInOrderWithTeardown ==
    /\ PhasesInOrder
    /\ StopsAtFirstFailure
    /\ BasicSetThenGet
    /\ IndexCreatePopulateQuery
    /\ IndexTornDown
    /\ JsonSetThenPathGet

-----------------------------------------------------------------------------
(* The handle of a client, step by step.                                   *)

\* The operations that run the body of close().
ClosingOps == {"close", "__exit__"}

\* A handle that is set changes only in a close() of its client whose
\* release returned, and then to None.
HandleChangedOnlyByClose ==
    \A c \in Clients :
        (~IsNone(_client[c]) /\ _client'[c] # _client[c])
            => /\ call'.op \in ClosingOps /\ call'.self = c
               /\ call'.net = "ok" /\ call'.raw.kind = "returned"
               /\ IsNone(_client'[c])

\* A method that reads self.client on a client whose handle is set leaves
\* that handle in place and creates no redis.Redis object, whether it
\* returns, raises or swallows the error of the library.
HandleKeptByOperations ==
    \A c \in Clients :
        (call'.op \in HandleOps /\ call'.self = c /\ ~IsNone(_client[c]))
            => /\ _client'[c] = _client[c]
               /\ conns' = conns

\* A close() whose release raises hands the error on and leaves the handle
\* set, the object unreleased.
FailedCloseKeepsHandle ==
    \A c \in Clients :
        (call'.op = "close" /\ call'.self = c /\ call'.raw.kind = "raised")
            => /\ ret' = call'.raw
               /\ ~IsNone(_client[c])
               /\ _client'[c] = _client[c]
               /\ conns' = conns

\* close() on a client without a handle creates no redis.Redis object and
\* leaves the handle None.
CloseWithoutHandle ==
    \A c \in Clients :
        (call'.op = "close" /\ call'.self = c /\ IsNone(_client[c]))
            => /\ conns' = conns
               /\ IsNone(_client'[c])
               /\ ret' = Returned(None)

\* C22: once a client has created its handle, the handle is changed only by
\* a close() whose release returns normally: every other operation, whether
\* it succeeds, raises or (ping, drop_search_index) swallows its error,
\* leaves the same handle in place; a close() whose release raises hands
\* the error on and leaves the handle set; close() on a client with no
\* handle creates no connection.
C22_HandleFrame ==
    [][/\ HandleChangedOnlyByClose
       /\ HandleKeptByOperations
       /\ FailedCloseKeepsHandle
       /\ CloseWithoutHandle]_vars

\* A close() whose release raised: the error was handed on and the client
\* still holds its handle, the object unreleased.
C22_Witness ==
    /\ call.op = "close" /\ call.raw.kind = "raised"
    /\ ret.kind = "raised"
    /\ ~IsNone(_client[call.self])
    /\ Get(_client[call.self]) \in DOMAIN conns.open

=============================================================================
